---------------------------- MODULE Spec2Model ----------------------------
(***************************************************************************)
(* One-shot refresh-and-wake controller of examples/stocks.py.             *)
(*                                                                         *)
(* A process invocation loads the quote cache, opens the e-paper display,  *)
(* fetches five symbols with a bounded retry loop each, falls back to the  *)
(* cache, saves the cache, renders, and in its finally block puts the      *)
(* display to sleep, sets the RTC wake alarm and decides on power-off.     *)
(* The cache file is the only state that survives from one invocation to   *)
(* the next.                                                               *)
(*                                                                         *)
(* Representation.  A Python dict is a function whose DOMAIN is its key    *)
(* set.  A formatted price string "12.34" is the integer 1234 (hundredths) *)
(* and a ".0f" string "66" is the integer 66; the provider's raw Close     *)
(* value is an integer number of thousandths.  The string "N/A" is NA.     *)
(* An instant is a number of clock ticks since midnight of day 0.  A       *)
(* variable that Python has not bound yet is the empty sequence, a bound   *)
(* one the one-element sequence of its value.                              *)
(***************************************************************************)
EXTENDS Integers, Sequences, FiniteSets, TLC

VARIABLES
    pc,             \* position of the process in the script
    cycle,          \* number of process invocations started so far
    cache_file,     \* durable cache file: [kind, data]
    last_values,    \* dict loaded from the cache file (l.45-50)
    epd,            \* display handle: "unbound", "new" (constructed), "ready"
    quotes,         \* dict ticker -> formatted price or NA (l.82)
    btc_price,      \* <<>> while unbound, <<v>> once assigned (l.110/117)
    used_fallback,  \* l.83
    t_idx,          \* index of the ticker the for-loop of l.85 is at
    attempt,        \* loop variable of the retry loop (l.87/105)
    success,        \* l.86/104
    cache_to_save,  \* l.123
    ratios,         \* <<>> or <<[vti_to_gld, pstg_to_vti, orcl_to_vti]>>
    calls,          \* history() calls made by the current retry loop
    sleeps,         \* time.sleep durations of the current retry loop
    succ_at,        \* 1-based attempt at which the current loop got data, 0 if none
    exhausted,      \* symbols whose retry loop ended without success
    load,           \* "none", "ok", "raised": outcome of the cache load
    rendered,       \* "none", "ok" (epd.display returned), "failed"
    log,            \* set of error-level log messages written
    slept,          \* epd.sleep() returned
    now,            \* <<>> or <<instant read at l.195>>
    waketime,       \* <<>> or <<instant sent to the RTC>>
    rtc,            \* "none", "ok" (alarm accepted), "failed" (not transmitted)
    power,          \* "none", "off" (shutdown invoked), "idle" (manual boot branch)
    fetches,        \* history() calls made by the acquisition under way
    grace_waited    \* time waited between the shutdown decision and power-off

vars == <<pc, cycle, cache_file, last_values, epd, quotes, btc_price,
          used_fallback, t_idx, attempt, success, cache_to_save, ratios,
          calls, sleeps, succ_at, exhausted, load, rendered, log, slept, now,
          waketime, rtc, power, fetches, grace_waited>>

----------------------------------------------------------------------------
(* Bounds of the model *)

MaxCycles == 2          \* process invocations explored
TicksPerHour == 2       \* clock resolution: instants per hour

(* Program constants *)

MAX_RETRIES == 5
MORNING_HOUR == 7
EVENING_HOUR == 19
HoursPerDay == 24
NoonHour == 12
GRACE_SECONDS == 60      \* "Wait for 1 minute"

NA == -1                \* the string "N/A"

tickers == <<"VTI", "GLD", "PSTG", "ORCL">>
btc_symbol == "BTC-USD"
Symbols == {tickers[i] : i \in 1..Len(tickers)} \cup {btc_symbol}

EmptyDict == [k \in {} |-> NA]

----------------------------------------------------------------------------
(* Dictionaries *)

\* Get that never finds the key
GetDefaultOnly(d, k) == NA

\* d.get(k, "N/A")
Get(d, k) == IF k \in DOMAIN d THEN d[k] ELSE NA

\* d[k] = v
Put(d, k, v) == [x \in (DOMAIN d) \cup {k} |-> IF x = k THEN v ELSE d[x]]

----------------------------------------------------------------------------
(* Number formatting *)

\* n/d rounded to the nearest integer, ties to the even one (n >= 0, d > 0)
RoundHalfEven(n, d) ==
    LET q == n \div d
        r == n % d
    IN  IF 2 * r < d THEN q
        ELSE IF 2 * r > d THEN q + 1
        ELSE IF q % 2 = 0 THEN q ELSE q + 1

\* f"{x:.2f}": thousandths -> hundredths
Format2f(m) == RoundHalfEven(m, 10)

\* f"{x:.0f}": thousandths -> units
Format0f(m) == RoundHalfEven(m, 1000)

----------------------------------------------------------------------------
(* The quote provider.  The latest Close of a symbol moves from one        *)
(* invocation to the next, so a value cached by an earlier invocation      *)
(* differs from the value a live fetch returns now.                        *)

BaseClose(s) ==
    CASE s = "VTI"  -> 12004
      [] s = "GLD"  -> 4006
      [] s = "PSTG" -> 6000
      [] s = "ORCL" -> 2995
      [] OTHER      -> 64400

\* the values data.tail(1)['Close'][0] can take for symbol s in invocation c;
\* GLD may also trade under half a cent, which ".2f" formats as "0.00"
Closes(s, c) ==
    {BaseClose(s) + 1000 * c} \cup (IF s = "GLD" THEN {4} ELSE {})

----------------------------------------------------------------------------
(* Wall-clock time *)

DayTicks == HoursPerDay * TicksPerHour
Instants == 0 .. (DayTicks - 1)

\* now.hour
Hour(i) == (i % DayTicks) \div TicksPerHour

\* now.replace(hour=h, minute=0, second=0, microsecond=0)
Replace(i, h) == (i \div DayTicks) * DayTicks + h * TicksPerHour

\* is_am(now)
is_am(i) == 0 <= Hour(i) /\ Hour(i) < NoonHour

\* is_am() is called without its argument and reads the clock again: the
\* second reading is the first one or a later one
ClockReads(i) == {i, i + 1}

----------------------------------------------------------------------------
(* The cache file *)

AbsentFile == [kind |-> "absent", data |-> EmptyDict]
MalformedFile == [kind |-> "malformed", data |-> EmptyDict]
JsonFile(d) == [kind |-> "json", data |-> d]

\* l.45-50: the result of the module-level load; json.load raises on
\* content that is not JSON and nothing catches it
LoadCache(f) ==
    CASE f.kind = "absent"    -> [ok |-> TRUE,  values |-> EmptyDict]
      [] f.kind = "json"      -> [ok |-> TRUE,  values |-> f.data]
      [] OTHER                -> [ok |-> FALSE, values |-> EmptyDict]

----------------------------------------------------------------------------
(* Process start and exit *)

\* the script's data variables hold nothing
NoData(lv, q, b, uf, ti, at, su, cts, ra, ca, sl, sa, ex) ==
    /\ lv = EmptyDict /\ q = EmptyDict /\ b = <<>>
    /\ uf = FALSE /\ ti = 1 /\ at = 0 /\ su = FALSE /\ cts = <<>>
    /\ ra = <<>> /\ ca = 0 /\ sl = <<>> /\ sa = 0 /\ ex = {}

\* the finally block reads none of the data of the try block (the cache, the
\* quotes, the loop variables, the ratios): from there on they are forgotten
ForgetData ==
    /\ NoData(last_values', quotes', btc_price', used_fallback', t_idx',
              attempt', success', cache_to_save', ratios', calls', sleeps',
              succ_at', exhausted')
    /\ fetches' = 0

\* the process ends (last statement done, or an exception nothing catches):
\* its memory is released
ExitProcess ==
    /\ ForgetData
    /\ epd' = "unbound"

Terminal == {"done", "crashed"}

Init ==
    /\ pc = "off"
    /\ cycle = 0
    /\ cache_file \in {AbsentFile, MalformedFile}
    /\ epd = "unbound"
    /\ NoData(last_values, quotes, btc_price, used_fallback, t_idx, attempt,
              success, cache_to_save, ratios, calls, sleeps, succ_at,
              exhausted)
    /\ load = "none" /\ rendered = "none" /\ log = {} /\ slept = FALSE
    /\ now = <<>> /\ waketime = <<>> /\ rtc = "none" /\ power = "none"
    /\ fetches = 0 /\ grace_waited = 0

\* l.45-50: the external trigger starts the script; the module-level code
\* loads the cache
Invoke ==
    /\ pc \in {"off"} \cup Terminal
    /\ cycle < MaxCycles
    /\ cycle' = cycle + 1
    /\ rendered' = "none" /\ log' = {} /\ slept' = FALSE
    /\ now' = <<>> /\ waketime' = <<>> /\ rtc' = "none" /\ power' = "none"
    /\ grace_waited' = 0
    /\ LET r == LoadCache(cache_file)
       IN  IF r.ok
           THEN /\ load' = "ok"
                /\ last_values' = r.values
                /\ fetches' = 0
                /\ pc' = "epd_new"
                /\ UNCHANGED <<epd, quotes, btc_price, used_fallback, t_idx,
                               attempt, success, cache_to_save, ratios, calls,
                               sleeps, succ_at, exhausted>>
           ELSE /\ load' = "raised"
                /\ pc' = "crashed"
                /\ ExitProcess
    /\ UNCHANGED cache_file

----------------------------------------------------------------------------
(* try: display handle (l.76-78) *)

\* an exception raised inside the try block is caught at l.188, logged at
\* l.189, and control passes to the finally block
Caught(cause) ==
    /\ log' = log \cup {<<"Failed to update display", cause>>}
    /\ pc' = "finally"

\* l.77: epd = epd2in13_V4.EPD()
EpdConstruct ==
    /\ pc = "epd_new"
    /\ \/ /\ epd' = "new"
          /\ pc' = "epd_init"
          /\ UNCHANGED log
       \/ /\ Caught("EPD()")
          /\ UNCHANGED epd
    /\ UNCHANGED <<cycle, cache_file, last_values, quotes, btc_price,
                   used_fallback, t_idx, attempt, success, cache_to_save,
                   ratios, calls, sleeps, succ_at, exhausted, load, rendered,
                   slept, now, waketime, rtc, power, fetches,
                   grace_waited>>

\* l.78-86: epd.init(), then the set-up of the acquisition loop
EpdInit ==
    /\ pc = "epd_init"
    /\ \/ /\ epd' = "ready"
          /\ pc' = "fetch"
          /\ quotes' = EmptyDict
          /\ used_fallback' = FALSE
          /\ t_idx' = 1
          /\ success' = FALSE
          /\ attempt' = 0
          /\ calls' = 0 /\ sleeps' = <<>> /\ succ_at' = 0
          /\ UNCHANGED log
       \/ /\ Caught("init")
          /\ UNCHANGED <<epd, quotes, used_fallback, t_idx, success, attempt,
                         calls, sleeps, succ_at>>
    /\ UNCHANGED <<cycle, cache_file, last_values, btc_price, cache_to_save,
                   ratios, exhausted, load, rendered, slept, now, waketime,
                   rtc, power, fetches,
                   grace_waited>>

----------------------------------------------------------------------------
(* Acquisition (l.85-119) *)

FetchOutcomes == {"data", "empty", "raises"}

\* FetchTicker without the break of l.94: the loop goes on after data
FetchTickerNoBreak ==
    /\ pc = "fetch"
    /\ LET t == tickers[t_idx]
       IN  \E outcome \in FetchOutcomes :
             /\ calls' = calls + 1
             /\ fetches' = fetches + 1
             /\ IF outcome = "data"
                THEN /\ \E c \in Closes(t, cycle) :
                          quotes' = Put(quotes, t, Format2f(c))
                     /\ success' = TRUE
                     /\ succ_at' = IF success THEN succ_at ELSE attempt + 1
                     /\ UNCHANGED sleeps
                ELSE /\ sleeps' = Append(sleeps, 2 ^ attempt)
                     /\ UNCHANGED <<quotes, success, succ_at>>
             /\ IF attempt + 1 < MAX_RETRIES
                THEN attempt' = attempt + 1 /\ pc' = "fetch"
                ELSE attempt' = attempt /\ pc' = "resolve"
    /\ UNCHANGED <<cycle, cache_file, last_values, epd, btc_price,
                   used_fallback, t_idx, cache_to_save, ratios, exhausted,
                   load, rendered, log, slept, now, waketime, rtc, power,
                   grace_waited>>

\* l.87-97: one pass of the retry loop of ticker tickers[t_idx]: a call of
\* history(); data ends the loop, an empty frame or an exception is followed
\* by time.sleep(2 ** attempt) and the next pass, if range() has one
FetchTicker ==
    /\ pc = "fetch"
    /\ LET t == tickers[t_idx]
       IN  \E outcome \in FetchOutcomes :
             /\ calls' = calls + 1
             /\ fetches' = fetches + 1
             /\ IF outcome = "data"
                THEN /\ \E c \in Closes(t, cycle) :
                          quotes' = Put(quotes, t, Format2f(c))
                     /\ success' = TRUE
                     /\ succ_at' = attempt + 1
                     /\ pc' = "resolve"
                     /\ UNCHANGED <<attempt, sleeps>>
                ELSE /\ sleeps' = Append(sleeps, 2 ^ attempt)
                     /\ IF attempt + 1 < MAX_RETRIES
                        THEN attempt' = attempt + 1 /\ pc' = "fetch"
                        ELSE attempt' = attempt /\ pc' = "resolve"
                     /\ UNCHANGED <<quotes, success, succ_at>>
    /\ UNCHANGED <<cycle, cache_file, last_values, epd, btc_price,
                   used_fallback, t_idx, cache_to_save, ratios, exhausted,
                   load, rendered, log, slept, now, waketime, rtc, power,
                   grace_waited>>

\* ResolveTicker that stores a fallback quote only when the cache has one
ResolveTickerSkipsMissing ==
    /\ pc = "resolve"
    /\ LET t == tickers[t_idx]
       IN  IF success
           THEN UNCHANGED <<quotes, used_fallback, exhausted>>
           ELSE /\ quotes' = IF t \in DOMAIN last_values
                             THEN Put(quotes, t, last_values[t]) ELSE quotes
                /\ used_fallback' = (used_fallback \/ Get(last_values, t) # NA)
                /\ exhausted' = exhausted \cup {t}
    /\ IF t_idx < Len(tickers)
       THEN t_idx' = t_idx + 1 /\ pc' = "fetch"
       ELSE t_idx' = t_idx /\ pc' = "btc_fetch"
    /\ success' = FALSE
    /\ attempt' = 0
    /\ calls' = 0 /\ sleeps' = <<>> /\ succ_at' = 0
    /\ UNCHANGED <<cycle, cache_file, last_values, epd, btc_price,
                   cache_to_save, ratios, load, rendered, log, slept, now,
                   waketime, rtc, power, fetches, grace_waited>>

\* ResolveTicker that lets the next ticker go on with the attempts that are
\* left over from this one
ResolveTickerSharedAttempts ==
    /\ pc = "resolve"
    /\ LET t == tickers[t_idx]
       IN  IF success
           THEN UNCHANGED <<quotes, used_fallback, exhausted>>
           ELSE /\ quotes' = Put(quotes, t, Get(last_values, t))
                /\ used_fallback' = (used_fallback \/ Get(last_values, t) # NA)
                /\ exhausted' = exhausted \cup {t}
    /\ IF t_idx < Len(tickers)
       THEN t_idx' = t_idx + 1 /\ pc' = "fetch"
       ELSE t_idx' = t_idx /\ pc' = "btc_fetch"
    /\ success' = FALSE
    /\ attempt' = IF success THEN 0 ELSE attempt
    /\ calls' = 0 /\ sleeps' = <<>> /\ succ_at' = 0
    /\ UNCHANGED <<cycle, cache_file, last_values, epd, btc_price,
                   cache_to_save, ratios, load, rendered, log, slept, now,
                   waketime, rtc, power, fetches, grace_waited>>

\* l.98-101, then l.85-86 for the next ticker or l.104-105 for Bitcoin
ResolveTicker ==
    /\ pc = "resolve"
    /\ LET t == tickers[t_idx]
       IN  IF success
           THEN UNCHANGED <<quotes, used_fallback, exhausted>>
           ELSE /\ quotes' = Put(quotes, t, Get(last_values, t))
                /\ used_fallback' = (used_fallback \/ Get(last_values, t) # NA)
                /\ exhausted' = exhausted \cup {t}
    /\ IF t_idx < Len(tickers)
       THEN t_idx' = t_idx + 1 /\ pc' = "fetch"
       ELSE t_idx' = t_idx /\ pc' = "btc_fetch"
    /\ success' = FALSE
    /\ attempt' = 0
    /\ calls' = 0 /\ sleeps' = <<>> /\ succ_at' = 0
    /\ UNCHANGED <<cycle, cache_file, last_values, epd, btc_price,
                   cache_to_save, ratios, load, rendered, log, slept, now,
                   waketime, rtc, power, fetches, grace_waited>>

\* l.105-115: one pass of the Bitcoin retry loop
FetchBtc ==
    /\ pc = "btc_fetch"
    /\ \E outcome \in FetchOutcomes :
         /\ calls' = calls + 1
         /\ fetches' = fetches + 1
         /\ IF outcome = "data"
            THEN /\ \E c \in Closes(btc_symbol, cycle) :
                      btc_price' = <<Format0f(c)>>
                 /\ success' = TRUE
                 /\ succ_at' = attempt + 1
                 /\ pc' = "btc_resolve"
                 /\ UNCHANGED <<attempt, sleeps>>
            ELSE /\ sleeps' = Append(sleeps, 2 ^ attempt)
                 /\ IF attempt + 1 < MAX_RETRIES
                    THEN attempt' = attempt + 1 /\ pc' = "btc_fetch"
                    ELSE attempt' = attempt /\ pc' = "btc_resolve"
                 /\ UNCHANGED <<btc_price, success, succ_at>>
    /\ UNCHANGED <<cycle, cache_file, last_values, epd, quotes, used_fallback,
                   t_idx, cache_to_save, ratios, exhausted, load, rendered,
                   log, slept, now, waketime, rtc, power,
                   grace_waited>>

\* ResolveBtc that flags every exhausted loop, cached value or not
ResolveBtcAlwaysFlags ==
    /\ pc = "btc_resolve"
    /\ IF success
       THEN UNCHANGED <<btc_price, used_fallback, exhausted>>
       ELSE /\ btc_price' = <<Get(last_values, btc_symbol)>>
            /\ used_fallback' = TRUE
            /\ exhausted' = exhausted \cup {btc_symbol}
    /\ pc' = "save"
    \* nothing reads the loop's variables after this point: they are forgotten
    /\ success' = FALSE
    /\ attempt' = 0
    /\ calls' = 0 /\ sleeps' = <<>> /\ succ_at' = 0 /\ fetches' = 0
    /\ UNCHANGED <<cycle, cache_file, last_values, epd, quotes, t_idx,
                   cache_to_save, ratios, load, rendered, log, slept, now,
                   waketime, rtc, power, grace_waited>>

\* l.116-119
ResolveBtc ==
    /\ pc = "btc_resolve"
    /\ IF success
       THEN UNCHANGED <<btc_price, used_fallback, exhausted>>
       ELSE /\ btc_price' = <<Get(last_values, btc_symbol)>>
            /\ used_fallback' = (used_fallback \/ Get(last_values, btc_symbol) # NA)
            /\ exhausted' = exhausted \cup {btc_symbol}
    /\ pc' = "save"
    \* nothing reads the loop's variables after this point: they are forgotten
    /\ success' = FALSE
    /\ attempt' = 0
    /\ calls' = 0 /\ sleeps' = <<>> /\ succ_at' = 0 /\ fetches' = 0
    /\ UNCHANGED <<cycle, cache_file, last_values, epd, quotes, t_idx,
                   cache_to_save, ratios, load, rendered, log, slept, now,
                   waketime, rtc, power, grace_waited>>

----------------------------------------------------------------------------
(* Cache save (l.121-133) *)

\* BuildCacheToSave that keeps the values fetched live only
BuildCacheToSaveLiveOnly(q, b) ==
    LET keys == {t \in DOMAIN q : q[t] # NA /\ t \notin exhausted}
                  \cup (IF b[1] # NA /\ btc_symbol \notin exhausted
                        THEN {btc_symbol} ELSE {})
    IN  [s \in keys |-> IF s = btc_symbol THEN b[1] ELSE q[s]]

\* l.123-128: the entries of quotes and btc_price that are not "N/A"
BuildCacheToSave(q, b) ==
    LET keys == {t \in DOMAIN q : q[t] # NA}
                  \cup (IF b[1] # NA THEN {btc_symbol} ELSE {})
    IN  [s \in keys |-> IF s = btc_symbol THEN b[1] ELSE q[s]]

SaveOutcomes == {"written", "open_raises", "dump_raises"}

\* SaveCache whose handler logs the failure and ends the script
SaveCacheAbortsOnFailure ==
    /\ pc = "save"
    /\ LET d == BuildCacheToSave(quotes, btc_price)
       IN  /\ cache_to_save' = <<d>>
           /\ IF DOMAIN d = {}
              THEN UNCHANGED <<cache_file, log>>
              ELSE \E outcome \in SaveOutcomes :
                     /\ cache_file' =
                          CASE outcome = "written"     -> JsonFile(d)
                            [] outcome = "open_raises" -> cache_file
                            [] OTHER                   -> MalformedFile
                     /\ log' = IF outcome = "written" THEN log
                               ELSE log \cup {<<"Failed to save cache", outcome>>}
    /\ pc' = IF cache_file' = JsonFile(BuildCacheToSave(quotes, btc_price))
              \/ DOMAIN BuildCacheToSave(quotes, btc_price) = {}
             THEN "ratios" ELSE "crashed"
    /\ UNCHANGED <<cycle, last_values, epd, quotes, btc_price, used_fallback,
                   t_idx, attempt, success, ratios, calls, sleeps, succ_at,
                   exhausted, load, rendered, slept, now, waketime, rtc, power, fetches,
                   grace_waited>>

\* l.129-133: open(cache_file, 'w') truncates the file and json.dump writes
\* it; an exception of either is caught and logged.  open() that raises
\* leaves the file as it was, json.dump that raises leaves it cut short
SaveCache ==
    /\ pc = "save"
    /\ LET d == BuildCacheToSave(quotes, btc_price)
       IN  /\ cache_to_save' = <<d>>
           /\ IF DOMAIN d = {}
              THEN UNCHANGED <<cache_file, log>>
              ELSE \E outcome \in SaveOutcomes :
                     /\ cache_file' =
                          CASE outcome = "written"     -> JsonFile(d)
                            [] outcome = "open_raises" -> cache_file
                            [] OTHER                   -> MalformedFile
                     /\ log' = IF outcome = "written" THEN log
                               ELSE log \cup {<<"Failed to save cache", outcome>>}
    /\ pc' = "ratios"
    /\ UNCHANGED <<cycle, last_values, epd, quotes, btc_price, used_fallback,
                   t_idx, attempt, success, ratios, calls, sleeps, succ_at,
                   exhausted, load, rendered, slept, now, waketime, rtc, power, fetches,
                   grace_waited>>

----------------------------------------------------------------------------
(* Ratios and rendering (l.135-186) *)

\* l.137-139: the conditional expression guards "N/A" operands only
RatioDefined(n, d) == n # NA /\ d # NA

\* round(float(n) / float(d), 2), in hundredths
Ratio(n, d) == IF RatioDefined(n, d) THEN RoundHalfEven(100 * n, d) ELSE NA

\* the three (numerator, denominator) pairs, in the order of l.137-139
RatioPairs == << <<"VTI", "GLD">>, <<"PSTG", "VTI">>, <<"ORCL", "VTI">> >>

\* l.136-141: a zero denominator raises ZeroDivisionError, which the
\* "except ValueError" of l.140 does not catch: it reaches l.188
ComputeRatios ==
    /\ pc = "ratios"
    /\ IF \E i \in 1..Len(RatioPairs) :
            /\ RatioDefined(quotes[RatioPairs[i][1]], quotes[RatioPairs[i][2]])
            /\ quotes[RatioPairs[i][2]] = 0
       THEN /\ Caught("ZeroDivisionError")
            /\ UNCHANGED ratios
       ELSE /\ ratios' = << [i \in 1..Len(RatioPairs) |->
                              Ratio(quotes[RatioPairs[i][1]],
                                    quotes[RatioPairs[i][2]])] >>
            /\ pc' = "render"
            /\ UNCHANGED log
    /\ UNCHANGED <<cycle, cache_file, last_values, epd, quotes, btc_price,
                   used_fallback, t_idx, attempt, success, cache_to_save,
                   calls, sleeps, succ_at, exhausted, load, rendered, slept,
                   now, waketime, rtc, power, fetches,
                   grace_waited>>

\* RenderRaises with no handler around the rendering code
RenderRaisesUncaught ==
    /\ rendered' = "failed"
    /\ log' = log
    /\ pc' = "crashed"

\* l.188-189 for an exception of l.143-186
RenderRaises ==
    /\ rendered' = "failed"
    /\ Caught("render")

\* l.143-186: drawing, battery query and epd.display(); any of them may raise
Render ==
    /\ pc = "render"
    /\ \/ /\ rendered' = "ok"
          /\ pc' = "finally"
          /\ UNCHANGED log
       \/ RenderRaises
    /\ UNCHANGED <<cycle, cache_file, last_values, epd, quotes, btc_price,
                   used_fallback, t_idx, attempt, success, cache_to_save,
                   ratios, calls, sleeps, succ_at, exhausted, load, slept,
                   now, waketime, rtc, power, fetches,
                   grace_waited>>

----------------------------------------------------------------------------
(* finally (l.191-211) *)

\* DisplaySleep that leaves the display awake and goes on to the scheduling
DisplaySleepDeferred ==
    /\ pc = "finally"
    /\ \/ /\ epd \in {"new", "ready"}
          /\ slept' = slept
          /\ pc' = "schedule"
          /\ ForgetData
          /\ UNCHANGED epd
       \/ /\ epd \in {"unbound", "new"}
          /\ pc' = "crashed"
          /\ ExitProcess
          /\ UNCHANGED slept
    /\ UNCHANGED <<cycle, cache_file, load, rendered, log, now, waketime, rtc,
                   power,
                   grace_waited>>

\* l.193: epd.sleep().  When EPD() raised, the name epd is not bound and the
\* call raises NameError; when init() raised, the driver is asked to put to
\* sleep a display it never initialised, which may or may not raise.  On an
\* initialised display the call is taken to return.  An exception here
\* leaves the finally block: nothing after it runs
DisplaySleep ==
    /\ pc = "finally"
    /\ \/ /\ epd \in {"new", "ready"}
          /\ slept' = TRUE
          /\ pc' = "schedule"
          /\ ForgetData
          /\ UNCHANGED epd
       \/ /\ epd \in {"unbound", "new"}
          /\ pc' = "crashed"
          /\ ExitProcess
          /\ UNCHANGED slept
    /\ UNCHANGED <<cycle, cache_file, load, rendered, log, now, waketime, rtc,
                   power,
                   grace_waited>>

\* l.196-201: today's evening target when is_am() says morning, today's
\* morning target otherwise; n is `now`, n2 the clock reading of is_am()
WakeTime(n, n2) ==
    IF is_am(n2) THEN Replace(n, EVENING_HOUR) ELSE Replace(n, MORNING_HOUR)

RtcOutcomes == {"ok", "failed"}

\* l.195-205: read the clock, compute the wake time, send it to the RTC
\* service; the response is logged and not examined
ScheduleWake ==
    /\ pc = "schedule"
    /\ \E n \in Instants, r \in RtcOutcomes :
         \E n2 \in ClockReads(n) :
           /\ now' = <<n>>
           /\ waketime' = <<WakeTime(n, n2)>>
           /\ rtc' = r
    /\ pc' = "decide"
    /\ UNCHANGED <<cycle, cache_file, last_values, epd, quotes, btc_price,
                   used_fallback, t_idx, attempt, success, cache_to_save,
                   ratios, calls, sleeps, succ_at, exhausted, load, rendered,
                   log, slept, power, fetches,
                   grace_waited>>

\* ShouldShutdown that forgets the evening target
ShouldShutdownMorningOnly(n) == Hour(n) = MORNING_HOUR

\* l.207
ShouldShutdown(n) == Hour(n) = MORNING_HOUR \/ Hour(n) = EVENING_HOUR

\* l.207-211: shut down or not; the script ends
Decide ==
    /\ pc = "decide"
    /\ power' = IF ShouldShutdown(now[1]) THEN "off" ELSE "idle"
    \* l.208-209: the shutdown command follows the decision at once; the
    \* finally block holds no time.sleep
    /\ grace_waited' = 0
    /\ pc' = "done"
    /\ ExitProcess
    /\ UNCHANGED <<cycle, cache_file, load, rendered, log, slept, now,
                   waketime, rtc>>

----------------------------------------------------------------------------

Next ==
    \/ Invoke
    \/ EpdConstruct
    \/ EpdInit
    \/ FetchTicker
    \/ ResolveTicker
    \/ FetchBtc
    \/ ResolveBtc
    \/ SaveCache
    \/ ComputeRatios
    \/ Render
    \/ DisplaySleep
    \/ ScheduleWake
    \/ Decide

Spec == Init /\ [][Next]_vars

\* the process is killed (power loss, signal) while l.130-131 write the
\* file: open() has truncated it and json.dump has not completed
InterruptSave ==
    /\ pc = "save"
    /\ DOMAIN BuildCacheToSave(quotes, btc_price) # {}
    /\ cache_file' = MalformedFile
    /\ pc' = "crashed"
    /\ ExitProcess
    /\ UNCHANGED <<cycle, load, rendered, log, slept, now, waketime, rtc,
                   power, grace_waited>>

NextInterruptible ==
    \/ Next
    \/ InterruptSave

\* the script in an environment that may kill it during the save
SpecInterrupt == Init /\ [][NextInterruptible]_vars

----------------------------------------------------------------------------
(* Properties *)

WakeTargets == {MORNING_HOUR, EVENING_HOUR}

\* the target-hour instants of the day of n and of the day after
TargetInstants(n) ==
    {Replace(n, h) + d * DayTicks : h \in WakeTargets, d \in {0, 1}}

\* the smallest target-hour instant strictly after n
NextTarget(n) ==
    CHOOSE w \in TargetInstants(n) :
        /\ w > n
        /\ \A v \in TargetInstants(n) : v > n => w <= v

\* C1: the wake instant sent to the RTC is the smallest target-hour instant
\* (07:00 or 19:00, minute zero) strictly greater than `now`: today's next
\* target if one remains, else the first target of the following day.
C1_WakeIsNextTargetAfterNow ==
    waketime # <<>> => waketime[1] = NextTarget(now[1])

\* C2: power-off is invoked only in a run in which the wake time was
\* transmitted to the RTC successfully.
C2_PowerOffOnlyAfterWakeTransmitted ==
    power = "off" => rtc = "ok"

StartupFailures ==
    {<<"Failed to update display", "EPD()">>, <<"Failed to update display", "init">>}

\* C3: a run whose display-handle construction or initialisation failed and
\* that has ended has put the display to sleep and has made the RTC call.
C3_StartupFailureStillSleepsAndSchedules ==
    (pc \in Terminal /\ log \cap StartupFailures # {})
        => (slept /\ rtc # "none")

\* C4: a failure while rendering is logged and is not fatal: the run goes on
\* through the finally block, puts the display to sleep, sends the wake time
\* and takes the shutdown decision, and does not end in any other way.
C4_RenderFailureNotFatal ==
    rendered = "failed" =>
        /\ <<"Failed to update display", "render">> \in log
        /\ pc \in {"finally", "schedule", "decide", "done"}
        /\ (pc \in {"schedule", "decide", "done"} => slept)
        /\ (pc \in {"decide", "done"} => (rtc # "none" /\ waketime # <<>>))
        /\ (pc = "done" => power # "none")

C4_Witness ==
    /\ rendered = "failed"
    /\ pc = "done"
    /\ slept
    /\ rtc = "ok"
    /\ power = "off"

\* C5: loading the cache never fails the run: no invocation ends in the
\* cache load, whatever the file holds.
C5_CacheLoadNeverFailsRun ==
    load # "raised"

\* the formatted value a live fetch of s yields in the current invocation
LiveValues(s) ==
    {IF s = btc_symbol THEN Format0f(c) ELSE Format2f(c) : c \in Closes(s, cycle)}

C7_FallbackValueSurvivesToNextLoad ==
    cache_to_save # <<>> =>
        \A s \in exhausted \cap DOMAIN last_values :
            LET r == LoadCache(cache_file)
            IN  /\ r.ok
                /\ s \in DOMAIN r.values
                /\ r.values[s] = last_values[s]

\* C8: the run invokes power-off exactly when the hour of `now` is 7 or 19;
\* at any other hour it takes the manual-boot branch and no power action.
C8_PowerOffIffTargetHour ==
    /\ power # "none" =>
          /\ now # <<>>
          /\ power \in {"off", "idle"}
          /\ (power = "off") <=> (Hour(now[1]) \in WakeTargets)
    /\ pc = "done" => power # "none"

C8_Witness ==
    /\ pc = "done"
    /\ power = "idle"
    /\ Hour(now[1]) = 14

LoopEnded == pc \in {"resolve", "btc_resolve"}

\* C9: a retry loop in which all MAX_RETRIES attempts failed made at most
\* MAX_RETRIES calls and slept exactly MAX_RETRIES - 1 times, for 1, 2, 4, 8:
\* there is no sleep after the last attempt.
C9_ExhaustedLoopSleepsBetweenAttemptsOnly ==
    (LoopEnded /\ ~success) =>
        /\ calls <= MAX_RETRIES
        /\ Len(sleeps) = MAX_RETRIES - 1
        /\ \A i \in 1..Len(sleeps) : sleeps[i] = 2 ^ (i - 1)

\* C10: a retry loop that got data on attempt k took the value at once: it
\* ended there, having made exactly k calls and k - 1 sleeps (of 1, 2, 4, ...),
\* and made no call and no sleep after it.
C10_SuccessEndsLoopAtOnce ==
    /\ calls <= MAX_RETRIES
    /\ success =>
          /\ LoopEnded
          /\ succ_at >= 1
          /\ calls = succ_at
          /\ Len(sleeps) = succ_at - 1
          /\ \A i \in 1..Len(sleeps) : sleeps[i] = 2 ^ (i - 1)
          /\ (pc = "resolve" => quotes[tickers[t_idx]] \in LiveValues(tickers[t_idx]))
          /\ (pc = "btc_resolve" => btc_price[1] \in LiveValues(btc_symbol))

C10_Witness ==
    /\ pc = "resolve"
    /\ success
    /\ succ_at = 3
    /\ calls = 3
    /\ sleeps = <<1, 2>>

----------------------------------------------------------------------------
(* The snapshot *)

TickerSet == {tickers[i] : i \in 1..Len(tickers)}

\* the acquisition is over and its data is still held
AcquisitionDone == pc = "save" \/ cache_to_save # <<>>

\* the quote of symbol s in the snapshot
QuoteOf(s) == IF s = btc_symbol THEN btc_price[1] ELSE quotes[s]

\* C11: after acquisition the snapshot holds one quote for each of VTI, GLD,
\* PSTG, ORCL and BTC-USD, whatever the fetch outcomes and the cache: each
\* quote is the symbol's live value, its cached value, or "N/A" when there is
\* neither; no symbol is left out.
C11_SnapshotHasOneQuotePerSymbol ==
    AcquisitionDone =>
        /\ DOMAIN quotes = TickerSet
        /\ Len(btc_price) = 1
        /\ \A s \in Symbols :
              /\ s \notin exhausted => QuoteOf(s) \in LiveValues(s)
              /\ s \in exhausted \ DOMAIN last_values => QuoteOf(s) = NA
              /\ s \in exhausted \cap DOMAIN last_values => QuoteOf(s) # NA

C11_Witness ==
    /\ pc = "save"
    /\ "VTI" \notin exhausted
    /\ "GLD" \in exhausted \ DOMAIN last_values
    /\ "PSTG" \in exhausted \cap DOMAIN last_values
    /\ btc_symbol \in exhausted \ DOMAIN last_values
    /\ quotes["GLD"] = NA
    /\ btc_price = <<NA>>

\* C12 as stated: at the end of acquisition used_fallback is true exactly
\* when some symbol's retries were exhausted, cached value or not.
C12_UsedFallbackIffSomeExhausted ==
    AcquisitionDone => (used_fallback <=> exhausted # {})

\* C12 amended: at the end of acquisition used_fallback is true exactly when
\* some symbol's retries were exhausted and the loaded cache holds a value
\* for it; an exhausted symbol shown as "N/A" does not set it.
C12_UsedFallbackIffCachedValueUsed ==
    AcquisitionDone =>
        (used_fallback <=> (exhausted \cap DOMAIN last_values # {}))

C12_Witness ==
    /\ pc = "save"
    /\ exhausted # {}
    /\ exhausted \cap DOMAIN last_values = {}
    /\ ~used_fallback

\* C14: the quote of a symbol whose retries were exhausted is the value the
\* cache loaded at process start holds for that symbol, and "N/A" if it
\* holds none; in particular it is no live value of this invocation.
C14_FallbackIsOwnCachedValue ==
    \A s \in exhausted :
        /\ s = btc_symbol => Len(btc_price) = 1
        /\ s # btc_symbol => s \in DOMAIN quotes
        /\ QuoteOf(s) = IF s \in DOMAIN last_values THEN last_values[s] ELSE NA
        /\ last_values = LoadCache(cache_file).values \/ cache_to_save # <<>>

C14_Witness ==
    /\ pc = "save"
    /\ "VTI" \in exhausted \cap DOMAIN last_values
    /\ quotes["VTI"] = last_values["VTI"]
    /\ quotes["VTI"] \notin LiveValues("VTI")
    /\ "GLD" \in exhausted \ DOMAIN last_values
    /\ "PSTG" \notin exhausted
    /\ btc_symbol \in exhausted \cap DOMAIN last_values
    /\ btc_price[1] \notin LiveValues(btc_symbol)

----------------------------------------------------------------------------
(* Ratios *)

\* the ratio of a pair as specified: absent when an operand is absent or the
\* denominator is zero
SpecRatio(n, d) ==
    IF n # NA /\ d # NA /\ d # 0 THEN RoundHalfEven(100 * n, d) ELSE NA

\* the ratio step is over and the data is still held
RatioStepOver == cache_to_save # <<>> /\ pc \in {"render", "finally"}

\* C13: once the ratio step is over, each of VTI/GLD, PSTG/VTI, ORCL/VTI is
\* round(numerator/denominator, 2) when both quotes have a value and the
\* denominator is not zero, and "N/A" otherwise; a zero denominator stops
\* neither the other ratios nor the rendering.
C13_RatiosTolerateMissingAndZero ==
    RatioStepOver =>
        /\ ratios # <<>>
        /\ \A i \in 1..Len(RatioPairs) :
              ratios[1][i] = SpecRatio(quotes[RatioPairs[i][1]],
                                       quotes[RatioPairs[i][2]])
        /\ (pc = "finally" => rendered # "none")

----------------------------------------------------------------------------
(* Shutdown grace, cache write *)

\* C15: power-off is invoked only after the grace interval of one minute has
\* been waited following the decision.
C15_PowerOffAfterGraceWait ==
    power = "off" => grace_waited >= GRACE_SECONDS

\* C16: a save that is interrupted leaves in the file either the complete
\* previous content or the complete new mapping, never an empty or partial
\* file.
C16_InterruptedSaveLeavesOldOrNew ==
    [][(pc = "save" /\ pc' = "crashed") =>
          cache_file' \in {cache_file,
                           JsonFile(BuildCacheToSave(quotes, btc_price))}]_vars

SaveFailed == \E o \in SaveOutcomes : <<"Failed to save cache", o>> \in log

\* C17: a failure to persist the cache is logged and does not abort the run:
\* the run goes on to the ratio step and from there, as after a successful
\* save, to rendering, display sleep and wake scheduling.
C17_SaveFailureNotFatal ==
    SaveFailed =>
        /\ pc \in {"ratios", "render", "finally", "schedule", "decide", "done"}
        /\ (pc = "render" => ratios # <<>>)
        /\ (pc \in {"finally", "schedule", "decide", "done"} =>
               \/ rendered # "none"
               \/ <<"Failed to update display", "ZeroDivisionError">> \in log)
        /\ (pc \in {"schedule", "decide", "done"} => slept)
        /\ (pc \in {"decide", "done"} => (rtc # "none" /\ waketime # <<>>))
        /\ (pc = "done" => power # "none")

C17_Witness ==
    /\ SaveFailed
    /\ pc = "done"
    /\ rendered = "ok"
    /\ slept
    /\ rtc = "ok"

----------------------------------------------------------------------------
(* Isolation of the retry loops, order of the steps, end of the run *)

\* the symbol whose retry loop is running
Current == IF pc \in {"fetch", "resolve"} THEN tickers[t_idx] ELSE btc_symbol

\* the quotes a live fetch of symbol s can record in this run
LiveQuotes(s) ==
    {IF s = btc_symbol THEN Format0f(c) ELSE Format2f(c) : c \in Closes(s, cycle)}

\* what a step taken inside a retry loop does and leaves alone
IsolatedLoopStep ==
    pc \in {"fetch", "resolve", "btc_fetch", "btc_resolve"} =>
        /\ last_values' = last_values
        /\ \A s \in DOMAIN quotes \ {Current} :
               s \in DOMAIN quotes' /\ quotes'[s] = quotes[s]
        /\ (pc \in {"fetch", "resolve"} => btc_price' = btc_price)
        /\ (pc = "fetch" => attempt + 1 = calls')
        /\ (pc = "resolve" =>
               /\ pc' = IF t_idx < Len(tickers) THEN "fetch" ELSE "btc_fetch"
               /\ t_idx' = IF t_idx < Len(tickers) THEN t_idx + 1 ELSE t_idx
               /\ attempt' = 0 /\ calls' = 0 /\ ~success'
               /\ calls = IF success THEN succ_at ELSE MAX_RETRIES
               /\ Current \in DOMAIN quotes'
               /\ quotes'[Current] \in
                      IF success THEN LiveQuotes(Current)
                      ELSE {Get(last_values, Current)})
        /\ (pc = "btc_resolve" =>
               /\ calls = IF success THEN succ_at ELSE MAX_RETRIES
               /\ btc_price'[1] \in
                      IF success THEN LiveQuotes(btc_symbol)
                      ELSE {Get(last_values, btc_symbol)})

\* C18: fetch failures are isolated per symbol.  Every retry loop starts with
\* its own full set of attempts whatever the earlier loops did, a step of one
\* symbol's loop changes no other symbol's quote and not the loaded cache,
\* the loop of every symbol is run, and the attempts made and the quote
\* recorded for a symbol follow from its own fetches only.
C18_FetchFailuresIsolatedPerSymbol == [][IsolatedLoopStep]_vars

\* GLD got its quote at the first attempt after all attempts for VTI failed
C18_Witness ==
    /\ pc = "resolve"
    /\ t_idx = 2
    /\ "VTI" \in exhausted
    /\ success
    /\ calls = 1

\* the spec's phase of a position in the script, as a number
Rank(p) ==
    CASE p = "off"                                            -> 0
      [] p \in {"epd_new", "epd_init"}                        -> 1
      [] p \in {"fetch", "resolve", "btc_fetch", "btc_resolve",
                "save"}                                       -> 2
      [] p \in {"ratios", "render"}                           -> 3
      [] p = "finally"                                        -> 4
      [] p = "schedule"                                       -> 5
      [] p = "decide"                                         -> 6
      [] OTHER                                                -> 7

\* what a step of a run respects
OrderedStep ==
    /\ (pc \notin {"off"} \cup Terminal => Rank(pc') >= Rank(pc))
    /\ (rtc' # "none" => slept')
    /\ (power' # "none" => (rtc' # "none" /\ pc' = "done"))
    /\ (power # "none" /\ power' # power => cycle' # cycle)
    /\ (slept => pc \in {"schedule", "decide", "done"})
    /\ (slept /\ cycle' = cycle =>
           /\ rendered' = rendered
           /\ fetches' = fetches /\ calls' = calls
           /\ quotes' = quotes /\ btc_price' = btc_price)

\* C19: within a run the phases follow one another in the order Init,
\* Acquiring, Rendering, Sleeping, Scheduling, decision.  The RTC call is made
\* only after the display sleep, the decision only after the RTC call, the
\* power state is set at most once in a run, and after the display sleep
\* nothing is fetched or rendered.
C19_StepsInOrder == [][OrderedStep]_vars

C19_Witness ==
    /\ pc = "done"
    /\ rendered = "ok"
    /\ slept
    /\ rtc = "ok"
    /\ power = "off"

\* C20: a run makes at most MAX_RETRIES fetch attempts per symbol, 25 in
\* all, and a run that has ended has reached the shutdown decision.
C20_RunEndsWithDecisionWithinAttemptBound ==
    /\ fetches <= MAX_RETRIES * Cardinality(Symbols)
    /\ (pc \in Terminal => power # "none")

====
